---- MODULE Spec2Model ----
(***************************************************************************)
(* A model of extract.py: the text-line scanner that turns the lines of a  *)
(* motivational-standards table into records.  Lines and tokens are real   *)
(* strings; the Python string methods and regular expressions the code     *)
(* uses are computed character by character.  A string of the model is a   *)
(* Python str over the characters U+0000..U+00FF, the characters a string  *)
(* literal of this module can hold; the character classes below are the    *)
(* Python classes cut down to that range.                                  *)
(***************************************************************************)
EXTENDS Integers, Sequences, FiniteSets, TLC

(***************************************************************************)
(* Python values.  None is the empty tuple and a present value x is the    *)
(* one-element tuple <<x>>, so that "x is None" and "not x" are decidable  *)
(* without comparing values of different types.                            *)
(***************************************************************************)
None == <<>>
Some(x) == <<x>>
Get(o) == o[1]

(***************************************************************************)
(* Python str primitives.                                                  *)
(***************************************************************************)
Ch(s, p) == SubSeq(s, p, p)

\* The characters str.isspace() accepts, which are the ones str.strip(), str.split() and the
\* regular expression \s work on: U+0009..U+000D, U+001C..U+001F, the space, U+0085 and U+00A0.
WhiteSpace ==
    {"\t", "\n", "", "\f", "\r", "", "", "", "", " ", "", " "}

\* The characters the regular expression \d accepts (the decimal digits, category Nd).
DigitChars == {"0", "1", "2", "3", "4", "5", "6", "7", "8", "9"}

\* The characters str.isdigit() accepts: the decimal digits and the superscripts U+00B2, U+00B3
\* and U+00B9, which are digits without being decimal digits.
IsdigitChars == DigitChars \cup {"²", "³", "¹"}

\* str.isdigit(): non-empty and every character a digit.
isdigit(s) == Len(s) > 0 /\ \A p \in 1..Len(s) : Ch(s, p) \in IsdigitChars

\* str.startswith(prefix)
startswith(s, prefix) == Len(s) >= Len(prefix) /\ SubSeq(s, 1, Len(prefix)) = prefix

\* s[p:p+len(lit)] == lit, for a position p inside or outside s.
LitAt(s, p, lit) == p >= 1 /\ p + Len(lit) - 1 <= Len(s) /\ SubSeq(s, p, p + Len(lit) - 1) = lit

\* n digits at s[p:p+n]
DigitsAt(s, p, n) == p >= 1 /\ p + n - 1 <= Len(s) /\ \A k \in p..(p + n - 1) : Ch(s, k) \in DigitChars

\* "sub in s"
contains(s, sub) == \E p \in 1..Len(s) : LitAt(s, p, sub)

\* The character at position q belongs to a run: it is in chars (member) or is not in chars.
InRun(s, q, chars, member) == (Ch(s, q) \in chars) = member

\* The length of the longest run starting at position p: up to the first character that does
\* not belong to it, or to the end of s.
RunFrom(s, p, chars, member) ==
    IF p > Len(s) THEN 0
    ELSE IF \A q \in p..Len(s) : InRun(s, q, chars, member) THEN Len(s) - p + 1
    ELSE (CHOOSE q \in p..Len(s) :
            /\ ~InRun(s, q, chars, member)
            /\ \A j \in p..(q - 1) : InRun(s, j, chars, member)) - p

\* The length of the longest run of characters of chars that ends at position p, read
\* backwards.
RunBack(s, p, chars) ==
    IF p < 1 THEN 0
    ELSE IF \A q \in 1..p : Ch(s, q) \in chars THEN p
    ELSE p - (CHOOSE q \in 1..p :
                Ch(s, q) \notin chars /\ \A j \in (q + 1)..p : Ch(s, j) \in chars)

\* The length of the longest run of digits starting at position p (\d+ and \d*).
DigitRun(s, p) == RunFrom(s, p, DigitChars, TRUE)

\* The length of the longest run of whitespace starting at position p (\s+ and \s*).
SpaceRun(s, p) == RunFrom(s, p, WhiteSpace, TRUE)

\* The length of the run of whitespace that ends at position p, read backwards.
SpaceRunBack(s, p) == RunBack(s, p, WhiteSpace)

\* str.strip()
strip(s) == SubSeq(s, 1 + SpaceRun(s, 1), Len(s) - SpaceRunBack(s, Len(s)))

\* The length of the longest run of non-whitespace characters starting at position p.
WordRun(s, p) == RunFrom(s, p, WhiteSpace, FALSE)

\* str.split(): the maximal runs of non-whitespace characters, in order.
RECURSIVE SplitFrom(_, _, _)
SplitFrom(s, p, acc) ==
    LET q == p + SpaceRun(s, p)
    IN IF q > Len(s) THEN acc
       ELSE SplitFrom(s, q + WordRun(s, q), Append(acc, SubSeq(s, q, q + WordRun(s, q) - 1)))

\* Variant: a split that cuts at every single whitespace character and keeps the
\* empty fields between two of them, as str.split(' ') does for spaces.
RECURSIVE SplitSpaceFrom(_, _, _)
SplitSpaceFrom(s, p, acc) ==
    LET w == WordRun(s, p)
        field == SubSeq(s, p, p + w - 1)
    IN IF p + w > Len(s) THEN Append(acc, field)
       ELSE SplitSpaceFrom(s, p + w + 1, Append(acc, field))

splitSpaceMut(s) == SplitSpaceFrom(s, 1, <<>>)

split(s) == SplitFrom(s, 1, <<>>)

\* str.split(sep) for a one-character separator: empty fields are kept.
RECURSIVE SplitOnFrom(_, _, _, _, _)
SplitOnFrom(s, sep, p, n, acc) ==
    IF p + n > Len(s)
    THEN Append(acc, SubSeq(s, p, p + n - 1))
    ELSE SplitOnFrom(s, sep, p + n + 1, RunFrom(s, p + n + 1, {sep}, FALSE),
                     Append(acc, SubSeq(s, p, p + n - 1)))

splitOn(s, sep) == SplitOnFrom(s, sep, 1, RunFrom(s, 1, {sep}, FALSE), <<>>)

\* str.replace(ch, '') for a one-character ch.
RECURSIVE removeChar(_, _)
removeChar(s, ch) ==
    IF Len(s) <= 1 THEN (IF s = ch THEN "" ELSE s)
    ELSE removeChar(SubSeq(s, 1, Len(s) \div 2), ch)
            \o removeChar(SubSeq(s, Len(s) \div 2 + 1, Len(s)), ch)

\* The cased characters str.lower() changes, A-Z and U+00C0..U+00DE without U+00D7, and below
\* each one the character it becomes.
UpperChars == "ABCDEFGHIJKLMNOPQRSTUVWXYZÀÁÂÃÄÅÆÇÈÉÊËÌÍÎÏÐÑÒÓÔÕÖØÙÚÛÜÝÞ"
LowerChars == "abcdefghijklmnopqrstuvwxyzàáâãäåæçèéêëìíîïðñòóôõöøùúûüýþ"

LowerMap ==
    [c \in {Ch(UpperChars, k) : k \in 1..Len(UpperChars)} |->
        Ch(LowerChars, CHOOSE k \in 1..Len(UpperChars) : Ch(UpperChars, k) = c)]

\* str.lower(), one character at a time (the halves only bound the recursion depth).
RECURSIVE lower(_)
lower(s) ==
    IF s = "" THEN ""
    ELSE IF Len(s) = 1 THEN (IF s \in DOMAIN LowerMap THEN LowerMap[s] ELSE s)
    ELSE lower(SubSeq(s, 1, Len(s) \div 2)) \o lower(SubSeq(s, Len(s) \div 2 + 1, Len(s)))

\* The position of the last occurrence of ch in s, 0 when there is none.
RECURSIVE LastIndex(_, _, _)
LastIndex(s, ch, p) == IF p = 0 THEN 0 ELSE IF Ch(s, p) = ch THEN p ELSE LastIndex(s, ch, p - 1)

\* str.rsplit(' ', 1): split at the last space.
rsplit1(s) ==
    LET p == LastIndex(s, " ", Len(s))
    IN IF p = 0 THEN <<s>> ELSE <<SubSeq(s, 1, p - 1), SubSeq(s, p + 1, Len(s))>>

(***************************************************************************)
(* Natural numbers of any size, for float().  A number is the sequence of  *)
(* its limbs in base LimbBase, least significant first, with no zero limb  *)
(* at the top; zero is the empty sequence.  Every product of two limbs     *)
(* stays below 2^31.  The operators that carry from limb to limb work on   *)
(* the lower half and then on the upper half of their operand, so that     *)
(* their nesting grows with the logarithm of its length.                   *)
(***************************************************************************)
LimbBase == 8192

Limb(a, k) == IF k <= Len(a) THEN a[k] ELSE 0

\* a without the zero limbs at its top
BigTrim(a) ==
    LET used == {k \in 1..Len(a) : a[k] # 0}
    IN IF used = {} THEN <<>>
       ELSE SubSeq(a, 1, CHOOSE k \in used : \A j \in used : j <= k)

\* a made n limbs long with zero limbs at its top
BigPad(a, n) == a \o [k \in 1..(n - Len(a)) |-> 0]

RECURSIVE BigOfNat(_)
BigOfNat(n) == IF n = 0 THEN <<>> ELSE <<n % LimbBase>> \o BigOfNat(n \div LimbBase)

\* a + b + carry for two operands of one length n >= 1: n limbs and the carry out
RECURSIVE BigAddCarry(_, _, _)
BigAddCarry(a, b, carry) ==
    IF Len(a) = 1
    THEN <<(a[1] + b[1] + carry) % LimbBase, (a[1] + b[1] + carry) \div LimbBase>>
    ELSE LET h == Len(a) \div 2
             low == BigAddCarry(SubSeq(a, 1, h), SubSeq(b, 1, h), carry)
         IN SubSeq(low, 1, h)
              \o BigAddCarry(SubSeq(a, h + 1, Len(a)), SubSeq(b, h + 1, Len(b)), low[h + 1])

BigAdd(a, b) ==
    LET n == IF Len(a) > Len(b) THEN Len(a) ELSE Len(b)
    IN IF n = 0 THEN <<>> ELSE BigTrim(BigAddCarry(BigPad(a, n), BigPad(b, n), 0))

\* a - b - borrow for two operands of one length n >= 1: n limbs and the borrow out
RECURSIVE BigSubBorrow(_, _, _)
BigSubBorrow(a, b, borrow) ==
    IF Len(a) = 1
    THEN <<(a[1] - b[1] - borrow) % LimbBase, IF a[1] - b[1] - borrow < 0 THEN 1 ELSE 0>>
    ELSE LET h == Len(a) \div 2
             low == BigSubBorrow(SubSeq(a, 1, h), SubSeq(b, 1, h), borrow)
         IN SubSeq(low, 1, h)
              \o BigSubBorrow(SubSeq(a, h + 1, Len(a)), SubSeq(b, h + 1, Len(b)), low[h + 1])

\* a - b, for a >= b
BigSub(a, b) ==
    IF a = <<>> THEN <<>>
    ELSE BigTrim(SubSeq(BigSubBorrow(a, BigPad(b, Len(a)), 0), 1, Len(a)))

\* -1, 0 or 1 as a is below, equal to or above b
BigCmp(a, b) ==
    IF Len(a) # Len(b) THEN (IF Len(a) < Len(b) THEN -1 ELSE 1)
    ELSE LET differ == {k \in 1..Len(a) : a[k] # b[k]}
         IN IF differ = {} THEN 0
            ELSE LET top == CHOOSE k \in differ : \A j \in differ : j <= k
                 IN IF a[top] < b[top] THEN -1 ELSE 1

\* a * m + carry for a of length n >= 1 and m, carry below LimbBase: n limbs and the carry out
RECURSIVE BigMulCarry(_, _, _)
BigMulCarry(a, m, carry) ==
    IF Len(a) = 1
    THEN <<(a[1] * m + carry) % LimbBase, (a[1] * m + carry) \div LimbBase>>
    ELSE LET h == Len(a) \div 2
             low == BigMulCarry(SubSeq(a, 1, h), m, carry)
         IN SubSeq(low, 1, h) \o BigMulCarry(SubSeq(a, h + 1, Len(a)), m, low[h + 1])

\* a * m, for m below LimbBase
BigMulSmall(a, m) == IF a = <<>> THEN <<>> ELSE BigTrim(BigMulCarry(a, m, 0))

\* a * LimbBase^n
BigShiftLimbs(a, n) == IF a = <<>> THEN <<>> ELSE [k \in 1..n |-> 0] \o a

\* a * 2^k
BigShl(a, k) == BigShiftLimbs(BigMulSmall(a, 2 ^ (k % 13)), k \div 13)

RECURSIVE BigMul(_, _)
BigMul(a, b) ==
    IF b = <<>> THEN <<>>
    ELSE IF Len(b) = 1 THEN BigMulSmall(a, b[1])
    ELSE LET h == Len(b) \div 2
         IN BigAdd(BigMul(a, SubSeq(b, 1, h)),
                   BigShiftLimbs(BigMul(a, SubSeq(b, h + 1, Len(b))), h))

\* h * h * m, for m below LimbBase
BigSquareTimes(h, m) == BigMulSmall(BigMul(h, h), m)

RECURSIVE BigPow10(_)
BigPow10(n) ==
    IF n = 0 THEN <<1>> ELSE BigSquareTimes(BigPow10(n \div 2), IF n % 2 = 1 THEN 10 ELSE 1)

\* The number of bits of a: 0 for zero, otherwise 1 + floor(log2(a)).
BigBitLen(a) ==
    IF a = <<>> THEN 0
    ELSE 13 * (Len(a) - 1) + (CHOOSE k \in 1..13 : 2 ^ (k - 1) <= a[Len(a)] /\ a[Len(a)] < 2 ^ k)

\* (rem * LimbBase^n + a) div d and mod d, for a of length n >= 1 and rem < d < LimbBase:
\* the n limbs of the quotient and the rest
RECURSIVE BigDivRest(_, _, _)
BigDivRest(a, d, rem) ==
    IF Len(a) = 1
    THEN <<(rem * LimbBase + a[1]) \div d, (rem * LimbBase + a[1]) % d>>
    ELSE LET h == Len(a) \div 2
             high == BigDivRest(SubSeq(a, h + 1, Len(a)), d, rem)
             low == BigDivRest(SubSeq(a, 1, h), d, high[Len(a) - h + 1])
         IN SubSeq(low, 1, h) \o SubSeq(high, 1, Len(a) - h) \o <<low[h + 1]>>

\* <<q, r mod (b * 2^lo)>> for the bits number lo to hi of the quotient of r by b, where
\* r < b * 2^(hi + 1): the upper half of the bits first, the lower half from what it leaves.
\* One bit is set when b * 2^bit, passed as t, fits into the rest.
RECURSIVE BigLongDiv(_, _, _, _)
BigLongStep(r, bit, t) ==
    IF BigCmp(r, t) >= 0 THEN <<BigShl(<<1>>, bit), BigSub(r, t)>> ELSE <<<<>>, r>>

BigLongAdd(q, low) == <<BigAdd(q, low[1]), low[2]>>

BigLongLow(high, b, hi, lo) == BigLongAdd(high[1], BigLongDiv(high[2], b, hi, lo))

BigLongDiv(r, b, hi, lo) ==
    IF hi < lo THEN <<<<>>, r>>
    ELSE IF hi = lo THEN BigLongStep(r, hi, BigShl(b, hi))
    ELSE BigLongLow(BigLongDiv(r, b, hi, (hi + lo) \div 2 + 1), b, (hi + lo) \div 2, lo)

\* The n limbs of a quotient and the rest, as BigDivRest gives them, as <<quotient, rest>>.
BigQuotientRest(qr, n) == <<BigTrim(SubSeq(qr, 1, n)), BigOfNat(qr[n + 1])>>

\* <<a div b, a mod b>>, for b # 0
BigDivMod(a, b) ==
    IF a = <<>> THEN <<<<>>, <<>>>>
    ELSE IF Len(b) = 1 THEN BigQuotientRest(BigDivRest(a, b[1], 0), Len(a))
    ELSE BigLongDiv(a, b, BigBitLen(a) - BigBitLen(b), 0)

\* a div 2^d
BigShr(a, d) ==
    IF d \div 13 >= Len(a) THEN <<>>
    ELSE BigQuotientRest(BigDivRest(SubSeq(a, d \div 13 + 1, Len(a)), 2 ^ (d % 13), 0),
                         Len(a) - d \div 13)[1]

(***************************************************************************)
(* A Python float is an IEEE 754 binary64 value, held as its fields: the   *)
(* sign bit, the 11-bit biased exponent exp, and the 52-bit fraction as    *)
(* its upper half hi and its lower half lo, 26 bits each.  Two floats are  *)
(* the same record exactly when they have the same bits.                   *)
(***************************************************************************)
FloatBits(sign, exp, hi, lo) == [sign |-> sign, exp |-> exp, hi |-> hi, lo |-> lo]

FloatZero(sign) == FloatBits(sign, 0, 0, 0)
FloatInf(sign) == FloatBits(sign, 2047, 0, 0)
FloatNaN(sign) == FloatBits(sign, 2047, 2 ^ 25, 0)

IsNaN(x) == x.exp = 2047 /\ (x.hi # 0 \/ x.lo # 0)
IsInf(x) == x.exp = 2047 /\ x.hi = 0 /\ x.lo = 0
IsZero(x) == x.exp = 0 /\ x.hi = 0 /\ x.lo = 0

\* The finite float x is Mantissa(x) * 2^Exponent(x).
Mantissa(x) ==
    BigTrim(<<x.lo % LimbBase, x.lo \div LimbBase, x.hi % LimbBase, x.hi \div LimbBase,
              IF x.exp = 0 THEN 0 ELSE 1>>)

Exponent(x) == IF x.exp = 0 THEN -1074 ELSE x.exp - 1075

\* The float m * 2^e, for a mantissa m below 2^53 that is at least 2^52 unless e = -1074;
\* infinity when m * 2^e is 2^1024 or more.
FloatPack(sign, m, e) ==
    IF e > 971 THEN FloatInf(sign)
    ELSE FloatBits(sign,
                   IF Len(m) = 5 THEN e + 1075 ELSE 0,
                   Limb(m, 3) + LimbBase * Limb(m, 4),
                   Limb(m, 1) + LimbBase * Limb(m, 2))

\* The last step of rounding: a mantissa that rounding has brought up to 2^53 is 2^52 with
\* the next exponent.
FloatCarry(sign, q, e) ==
    IF Limb(q, 5) = 2 THEN FloatPack(sign, <<0, 0, 0, 0, 1>>, e + 1) ELSE FloatPack(sign, q, e)

\* q * 2^e and a rest, rounded: c is -1, 0 or 1 as the rest is below, equal to or above half
\* of 2^e.  A rest above the half rounds up, a rest of just the half rounds to the even q.
FloatRoundUp(sign, q, e, c) ==
    FloatCarry(sign, IF c > 0 \/ (c = 0 /\ Limb(q, 1) % 2 = 1) THEN BigAdd(q, <<1>>) ELSE q, e)

\* m * 2^e rounded at the bit of weight 2^(e + d), d >= 1; q is m div 2^d.
FloatRoundCut(sign, m, e, d, q) ==
    FloatRoundUp(sign, q, e + d, BigCmp(BigShl(BigSub(m, BigShl(q, d)), 1), BigShl(<<1>>, d)))

\* m * 2^e rounded to a mantissa whose last bit has the weight 2^e2.
FloatRoundTo(sign, m, e, e2) ==
    IF e2 <= e THEN FloatPack(sign, BigShl(m, e - e2), e2)
    ELSE FloatRoundCut(sign, m, e, e2 - e, BigShr(m, e2 - e))

Larger(p, q) == IF p > q THEN p ELSE q

\* m * 2^e rounded to the nearest float, ties to the even mantissa: the mantissa keeps the
\* top 53 bits of m, fewer for a subnormal, whose last bit weighs 2^-1074.
FloatRound(sign, m, e) ==
    IF m = <<>> THEN FloatZero(sign)
    ELSE FloatRoundTo(sign, m, e, Larger(e + BigBitLen(m) - 53, -1074))

\* The quotient q and the rest of a division whose dividend was multiplied by 2^s (or whose
\* divisor by 2^-s), rounded: one more bit below q records that there was a rest.
FloatOfQuotient(sign, qr, s) ==
    FloatRound(sign, BigAdd(BigShl(qr[1], 1), IF qr[2] = <<>> THEN <<>> ELSE <<1>>), -s - 1)

FloatOfScaled(sign, a, b, s) ==
    FloatOfQuotient(sign,
                    BigDivMod(IF s >= 0 THEN BigShl(a, s) ELSE a,
                              IF s >= 0 THEN b ELSE BigShl(b, -s)),
                    s)

\* a / b rounded to the nearest float, for b # 0: the quotient is taken to 56 bits or more
\* (or down to the bit of weight 2^-1080).
FloatOfRatio(sign, a, b) ==
    IF a = <<>> THEN FloatZero(sign)
    ELSE FloatOfScaled(sign, a, b, -Larger(BigBitLen(a) - BigBitLen(b) - 56, -1080))

\* x < y on floats: false when either is a NaN, and -0.0 is not below 0.0.
FloatMagLess(x, y) ==
    \/ x.exp < y.exp
    \/ x.exp = y.exp /\ (x.hi < y.hi \/ (x.hi = y.hi /\ x.lo < y.lo))

FloatLess(x, y) ==
    /\ ~IsNaN(x) /\ ~IsNaN(y)
    /\ ~(IsZero(x) /\ IsZero(y))
    /\ IF x.sign # y.sign THEN x.sign = 1
       ELSE IF x.sign = 0 THEN FloatMagLess(x, y) ELSE FloatMagLess(y, x)

\* x == y on floats (the comparison the statements about equal decoded values use)
FloatEq(x, y) == ~IsNaN(x) /\ ~IsNaN(y) /\ (x = y \/ (IsZero(x) /\ IsZero(y)))

\* x <= y on floats
FloatLessEq(x, y) == FloatLess(x, y) \/ FloatEq(x, y)

\* The result of an operation on two NaN operands is one of the two: which one depends on the
\* order in which the build hands the operands to the processor, and one build can do it either
\* way from one call to the next.  nan_pick is the operand that is kept, the first or the second.
NaNPicks == {1, 2}

NaNOf(x, y, nan_pick) == IF nan_pick = 1 THEN x ELSE y

\* x * y on floats
FloatMul(x, y, nan_pick) ==
    LET sign == (x.sign + y.sign) % 2
    IN IF IsNaN(x) /\ IsNaN(y) THEN NaNOf(x, y, nan_pick)
       ELSE IF IsNaN(x) THEN x
       ELSE IF IsNaN(y) THEN y
       ELSE IF IsInf(x) \/ IsInf(y)
            THEN (IF IsZero(x) \/ IsZero(y) THEN FloatNaN(1) ELSE FloatInf(sign))
       ELSE FloatRound(sign, BigMul(Mantissa(x), Mantissa(y)), Exponent(x) + Exponent(y))

\* big + small for two finite floats, big the one of the larger magnitude, with the mantissas
\* mb and ms they have over the common exponent e.
FloatAddAligned(big, small, mb, ms, e) ==
    FloatRound(IF big.sign # small.sign /\ mb = ms THEN 0 ELSE big.sign,
               IF big.sign = small.sign THEN BigAdd(mb, ms) ELSE BigSub(mb, ms),
               e)

\* An operand more than 64 binary places below the other one only says on which side of
\* the other one the sum lies, so it is moved up to 64 places below it.
FloatAddOrdered(big, small, far) ==
    FloatAddAligned(big, small,
                    BigShl(Mantissa(big), IF far THEN 64 ELSE Exponent(big) - Exponent(small)),
                    IF far THEN <<1>> ELSE Mantissa(small),
                    IF far THEN Exponent(big) - 64 ELSE Exponent(small))

FloatAddSorted(big, small) ==
    FloatAddOrdered(big, small, ~IsZero(small) /\ Exponent(big) - Exponent(small) > 64)

\* The sum of two finite floats.
FloatAddFinite(x, y) ==
    FloatAddSorted(IF FloatMagLess(x, y) THEN y ELSE x, IF FloatMagLess(x, y) THEN x ELSE y)

\* x + y on floats
FloatAdd(x, y, nan_pick) ==
    IF IsNaN(x) /\ IsNaN(y) THEN NaNOf(x, y, nan_pick)
    ELSE IF IsNaN(x) THEN x
    ELSE IF IsNaN(y) THEN y
    ELSE IF IsInf(x) THEN (IF IsInf(y) /\ x.sign # y.sign THEN FloatNaN(1) ELSE x)
    ELSE IF IsInf(y) THEN y
    ELSE FloatAddFinite(x, y)

\* float(n) for the int n >= 0 of a Python expression
FloatOfNat(n) == FloatRound(0, BigOfNat(n), 0)

(***************************************************************************)
(* float(text): the text without the whitespace around it is an optional   *)
(* sign and then "inf", "infinity" or "nan" in any case, or a decimal      *)
(* numeral: digits with an optional point, or a point and digits, then an  *)
(* optional exponent; single underscores may sit between two digits.  The  *)
(* value is the float nearest to the numeral.  ValueError is None.         *)
(***************************************************************************)
\* The whitespace float() drops: it does not count U+001C..U+001F.
FloatSpace == WhiteSpace \ {"", "", "", ""}

FloatSpaceRun(s, p) == RunFrom(s, p, FloatSpace, TRUE)

FloatSpaceRunBack(s, p) == RunBack(s, p, FloatSpace)

\* The character at position p, "" outside the string.
At(s, p) == IF 1 <= p /\ p <= Len(s) THEN Ch(s, p) ELSE ""

\* The value of a string of digits.
DigitVal(c) == CHOOSE d \in 0..9 : Ch("0123456789", d + 1) = c

RECURSIVE ToNat(_)
ToNat(s) == IF s = "" THEN 0 ELSE 10 * ToNat(SubSeq(s, 1, Len(s) - 1)) + DigitVal(Ch(s, Len(s)))

\* The value of a string of digits of any length.
RECURSIVE BigOfDigits(_)
BigOfDigits(s) ==
    IF Len(s) <= 4 THEN BigOfNat(ToNat(s))
    ELSE LET h == Len(s) \div 2
         IN BigAdd(BigMul(BigOfDigits(SubSeq(s, 1, h)), BigPow10(Len(s) - h)),
                   BigOfDigits(SubSeq(s, h + 1, Len(s))))

\* The length of the run of "0" at position p.
ZeroRun(s, p) == RunFrom(s, p, {"0"}, TRUE)

\* The length of the run of "0" at the end of s.
ZeroRunBack(s) == RunBack(s, Len(s), {"0"})

\* The value of the digits of an exponent.  The conversion of CPython holds an exponent of
\* more than nine digits after its leading zeros at 1100000000, which no numeral of fewer
\* than a thousand million digits brings back into the range of a float.
ExponentVal(s) ==
    LET t == SubSeq(s, 1 + ZeroRun(s, 1), Len(s))
    IN IF Len(t) > 9 THEN 1100000000 ELSE ToNat(t)

\* The float nearest to d * 10^e10 for the number d and the power p = 10^|e10|.
FloatOfParts(sign, d, e10, p) ==
    FloatOfRatio(sign, IF e10 >= 0 THEN BigMul(d, p) ELSE d, IF e10 >= 0 THEN <<1>> ELSE p)

\* The float nearest to d * 10^e10 for a string d of digits without "0" at either end.  A
\* numeral of n digits is at least 10^(n - 1 + e10) and below 10^(n + e10): from 10^310 on it is
\* infinity, below 10^-324 it is zero.
FloatOfDigits(sign, d, e10) ==
    IF d = "" THEN FloatZero(sign)
    ELSE IF Len(d) + e10 > 310 THEN FloatInf(sign)
    ELSE IF Len(d) + e10 < -324 THEN FloatZero(sign)
    ELSE FloatOfParts(sign, BigOfDigits(d), e10, BigPow10(IF e10 >= 0 THEN e10 ELSE -e10))

\* The float nearest to d * 10^e10 for a string d of digits that starts with no "0": the
\* zeros at the end of d go into the power of ten.
FloatOfTrimmed(sign, d, e10) ==
    FloatOfDigits(sign, SubSeq(d, 1, Len(d) - ZeroRunBack(d)), e10 + ZeroRunBack(d))

\* The float nearest to digits * 10^e10.
FloatOfDecimal(sign, digits, e10) ==
    FloatOfTrimmed(sign, SubSeq(digits, 1 + ZeroRun(digits, 1), Len(digits)), e10)

\* The position of the first character of s that is in chars, 0 when there is none.
FirstOf(s, chars) ==
    IF \A p \in 1..Len(s) : Ch(s, p) \notin chars THEN 0
    ELSE CHOOSE p \in 1..Len(s) :
            Ch(s, p) \in chars /\ \A q \in 1..(p - 1) : Ch(s, q) \notin chars

\* s is one digit group from end to end: digits, with single underscores between digits.
WholeGroup(s) ==
    /\ s # ""
    /\ \A p \in 1..Len(s) :
        \/ Ch(s, p) \in DigitChars
        \/ Ch(s, p) = "_" /\ At(s, p - 1) \in DigitChars /\ At(s, p + 1) \in DigitChars

\* The value of the exponent digits ds, negated for a minus sign; None when they are no digits.
ExponentOfDigits(minus, ds) ==
    IF ~WholeGroup(ds) THEN None
    ELSE Some((IF minus THEN -1 ELSE 1) * ExponentVal(removeChar(ds, "_")))

\* The value of the text after the exponent mark: an optional sign, then digits.
ExponentOf(text) ==
    ExponentOfDigits(At(text, 1) = "-", IF At(text, 1) \in {"+", "-"} THEN Tail(text) ELSE text)

\* The float of the digits of a numeral, fraclen of them after the point.  The conversion of
\* CPython refuses a numeral of more than 1000000000 digits after its leading zeros, and one
\* of more than 1000000000 digits after the point.
FloatOfCounted(sign, digits, fraclen, e10) ==
    IF Len(digits) - ZeroRun(digits, 1) > 1000000000 \/ fraclen > 1000000000 THEN None
    ELSE Some(FloatOfDecimal(sign, digits, e10 - fraclen))

\* The float of the digits ip before and fp after the point; one of them may be missing.
FloatOfIntFrac(sign, ip, fp, e10) ==
    IF (ip = "" /\ fp = "") \/ (ip # "" /\ ~WholeGroup(ip)) \/ (fp # "" /\ ~WholeGroup(fp))
    THEN None
    ELSE FloatOfCounted(sign, removeChar(ip \o fp, "_"), Len(removeChar(fp, "_")), e10)

\* The float of the mantissa text mant, whose first point is at position p (0: no point).
FloatOfPointed(sign, mant, p, e10) ==
    FloatOfIntFrac(sign,
                   IF p = 0 THEN mant ELSE SubSeq(mant, 1, p - 1),
                   IF p = 0 THEN "" ELSE SubSeq(mant, p + 1, Len(mant)),
                   e10)

FloatOfFields(sign, mant, e) ==
    IF e = None THEN None ELSE FloatOfPointed(sign, mant, FirstOf(mant, {"."}), Get(e))

\* The float of the numeral body, whose first exponent mark is at position p (0: no mark).
FloatOfMarked(sign, body, p) ==
    FloatOfFields(sign,
                  IF p = 0 THEN body ELSE SubSeq(body, 1, p - 1),
                  IF p = 0 THEN Some(0) ELSE ExponentOf(SubSeq(body, p + 1, Len(body))))

\* The numeral body (no sign, no whitespace), or None when it is no numeral.
FloatOfNumeral(sign, body) == FloatOfMarked(sign, body, FirstOf(body, {"e", "E"}))

FloatOfBody(sign, body) ==
    IF lower(body) \in {"inf", "infinity"} THEN Some(FloatInf(sign))
    ELSE IF lower(body) = "nan" THEN Some(FloatNaN(sign))
    ELSE FloatOfNumeral(sign, body)

\* The text t without whitespace around it: its sign, and what follows the sign.
FloatOfSigned(t) == FloatOfBody(IF At(t, 1) = "-" THEN 1 ELSE 0,
                                IF At(t, 1) \in {"+", "-"} THEN Tail(t) ELSE t)

float(text) ==
    FloatOfSigned(SubSeq(text, 1 + FloatSpaceRun(text, 1),
                         Len(text) - FloatSpaceRunBack(text, Len(text))))

\* Lines 24-27 and 31-32: the value from the floats of the parts, None for a ValueError.
TimeOfFloats(vals, colon, nan_pick) ==
    IF ~colon THEN vals[1]
    ELSE IF vals[1] = None \/ vals[2] = None THEN None
    ELSE Some(FloatAdd(FloatMul(Get(vals[1]), FloatOfNat(60), nan_pick), Get(vals[2]),
                       nan_pick))

\* Lines 21-34: with a colon, the parts around the colons, which must be two; without, the text.
TimeOfParts(parts, colon, nan_pick) ==
    IF colon /\ Len(parts) # 2 THEN None
    ELSE TimeOfFloats([k \in 1..Len(parts) |-> float(parts[k])] \o <<>>, colon, nan_pick)

TimeOfText(t, nan_pick) ==
    TimeOfParts(IF contains(t, ":") THEN splitOn(t, ":") ELSE <<t>>, contains(t, ":"), nan_pick)

\* parse_time_to_seconds(time_str): a float, or None.  The value depends on nan_pick for no
\* text but one whose two parts are both "nan": the sum of line 27 is then either NaN.
parse_time_to_seconds(time_str, nan_pick) ==
    IF time_str = "" THEN None ELSE TimeOfText(strip(removeChar(time_str, "*")), nan_pick)

(***************************************************************************)
(* clean_row: one forward pass that fuses split tokens.                    *)
(***************************************************************************)
STROKES == {"FR", "BK", "BR", "FL", "IM", "FR-R", "MED-R"}
COURSES == {"SCY", "SCM", "LCM"}
RELAYS == {"FR-R", "MED-R"}

\* The regular expression $ without re.MULTILINE: the end of the string, or the position
\* just before a newline that ends the string.  DollarEnds(s) are the lengths a match may have.
DollarEnds(s) ==
    {Len(s)} \cup (IF Len(s) >= 1 /\ Ch(s, Len(s)) = "\n" THEN {Len(s) - 1} ELSE {})

\* re ^(?:\d{1,2}:)?\d{2}\.\d{2} matching the first n characters of s
TimeAt(s, n) ==
    \/ n = 5 /\ DigitsAt(s, 1, 2) /\ Ch(s, 3) = "." /\ DigitsAt(s, 4, 2)
    \/ \E m \in {1, 2} :
         /\ n = m + 6
         /\ DigitsAt(s, 1, m) /\ Ch(s, m + 1) = ":"
         /\ DigitsAt(s, m + 2, 2) /\ Ch(s, m + 4) = "." /\ DigitsAt(s, m + 5, 2)

\* re ^(?:\d{1,2}:)?\d{2}\.\d{2}$
clean_time_pattern(s) == \E n \in DollarEnds(s) : TimeAt(s, n)

\* Rule 1, event name split across three cells.  Positions are 1-based: the code's i + 2 < len(items)
\* is here k + 2 <= Len(items), k being the code's i + 1.
EventSplit(items, k) ==
    /\ k + 2 <= Len(items)
    /\ isdigit(items[k])
    /\ items[k + 1] \in STROKES
    /\ items[k + 2] \in COURSES

\* Rule 2, time split across two cells.
TimeSplit(items, k) ==
    /\ k + 1 <= Len(items)
    /\ isdigit(items[k])
    /\ startswith(items[k + 1], ":")

\* Variant: the merged time never takes the "*" that follows it.
TimeSplitTakesStarMut(items, k) == FALSE

\* Rule 2 looks one token further for an asterisk and takes it too.
TimeSplitTakesStar(items, k) == k + 2 <= Len(items) /\ items[k + 2] = "*"

\* Rule 3, a complete time followed by "*".
TimeStar(items, k) ==
    /\ k + 1 <= Len(items)
    /\ clean_time_pattern(items[k])
    /\ items[k + 1] = "*"

RECURSIVE CleanFrom(_, _, _)
CleanFrom(items, k, new_items) ==
    IF k > Len(items) THEN new_items
    ELSE IF EventSplit(items, k)
    THEN CleanFrom(items, k + 3,
            Append(new_items, items[k] \o " " \o items[k + 1] \o " " \o items[k + 2]))
    ELSE IF TimeSplit(items, k)
    THEN IF TimeSplitTakesStar(items, k)
         THEN CleanFrom(items, k + 3, Append(new_items, items[k] \o items[k + 1] \o " *"))
         ELSE CleanFrom(items, k + 2, Append(new_items, items[k] \o items[k + 1]))
    ELSE IF TimeStar(items, k)
    THEN CleanFrom(items, k + 2, Append(new_items, items[k] \o " *"))
    ELSE CleanFrom(items, k + 1, Append(new_items, items[k]))

clean_row(items) == IF items = <<>> THEN <<>> ELSE CleanFrom(items, 1, <<>>)

(***************************************************************************)
(* The raw-line and merged-row classifiers.                                *)
(***************************************************************************)
is_whitespace_row(line_text) == strip(line_text) = ""

is_general_title_row(line_text) == contains(lower(line_text), "motivational")

\* re.search of \d{1,2}/\d{1,2}/\d{4} \d{1,2}:\d{2}:\d{2} (AM|PM)
is_timestamp_row(line_text) ==
    \E p \in 1..Len(line_text) : \E a \in {1, 2} : \E b \in {1, 2} : \E c \in {1, 2} :
        /\ DigitsAt(line_text, p, a)
        /\ LitAt(line_text, p + a, "/")
        /\ DigitsAt(line_text, p + a + 1, b)
        /\ LitAt(line_text, p + a + 1 + b, "/")
        /\ DigitsAt(line_text, p + a + b + 2, 4)
        /\ LitAt(line_text, p + a + b + 6, " ")
        /\ DigitsAt(line_text, p + a + b + 7, c)
        /\ LitAt(line_text, p + a + b + c + 7, ":")
        /\ DigitsAt(line_text, p + a + b + c + 8, 2)
        /\ LitAt(line_text, p + a + b + c + 10, ":")
        /\ DigitsAt(line_text, p + a + b + c + 11, 2)
        /\ LitAt(line_text, p + a + b + c + 13, " ")
        /\ \/ LitAt(line_text, p + a + b + c + 14, "AM")
           \/ LitAt(line_text, p + a + b + c + 14, "PM")

\* re.search of Page \d+ of \d+   (\d+ must take the whole run of digits,
\* the next character of the pattern being a space)
is_page_number_row(line_text) ==
    \E p \in 1..Len(line_text) :
        /\ LitAt(line_text, p, "Page ")
        /\ LET n == DigitRun(line_text, p + 5)
           IN /\ n >= 1
              /\ LitAt(line_text, p + 5 + n, " of ")
              /\ DigitRun(line_text, p + 9 + n) >= 1

CUT_ORDER_LABELS_LEFT == <<"B", "BB", "A", "AA", "AAA", "AAAA">>
CUT_ORDER_LABELS_RIGHT == <<"AAAA", "AAA", "AA", "A", "BB", "B">>

is_cut_order_header_row(cleaned_row) ==
    LET expected_with_event ==
            <<"B", "BB", "A", "AA", "AAA", "AAAA", "Event", "AAAA", "AAA", "AA", "A", "BB", "B">>
        expected_without_event ==
            <<"B", "BB", "A", "AA", "AAA", "AAAA", "AAAA", "AAA", "AA", "A", "BB", "B">>
    IN cleaned_row = expected_with_event \/ cleaned_row = expected_without_event

(***************************************************************************)
(* parse_age_gender_header.  Each function gives the position after the    *)
(* piece of the pattern it matches at p, 0 when it does not match.  The    *)
(* pattern matches in one way at most: every \d+ and \s+ is followed by a  *)
(* piece that starts with a character outside its class, so it takes its   *)
(* whole run, and an age alternative that matches is followed by text no   *)
(* later alternative could be followed by.                                 *)
(***************************************************************************)
\* (\d+ & over|\d+ & under|\d+-\d+|\d+)
AgeEnd(s, p) ==
    LET n == DigitRun(s, p)
    IN IF n = 0 THEN 0
       ELSE IF LitAt(s, p + n, " & over") THEN p + n + 7
       ELSE IF LitAt(s, p + n, " & under") THEN p + n + 8
       ELSE IF LitAt(s, p + n, "-") /\ DigitRun(s, p + n + 1) >= 1
            THEN p + n + 1 + DigitRun(s, p + n + 1)
       ELSE p + n

\* (Girls|Boys)
GenderEnd(s, p) ==
    IF LitAt(s, p, "Girls") THEN p + 5 ELSE IF LitAt(s, p, "Boys") THEN p + 4 ELSE 0

\* \s+ after a matched piece that ended at p (p = 0: the piece did not match)
SpacesEnd(s, p) == IF p = 0 \/ SpaceRun(s, p) = 0 THEN 0 ELSE p + SpaceRun(s, p)

\* (?:Event\s+)?
EventEnd(s, p) ==
    IF p = 0 THEN 0
    ELSE IF LitAt(s, p, "Event") /\ SpaceRun(s, p + 5) >= 1 THEN p + 5 + SpaceRun(s, p + 5)
    ELSE p

parse_age_gender_header(line_text) ==
    LET t  == strip(line_text)
        a1 == AgeEnd(t, 1)
        s1 == SpacesEnd(t, a1)
        g1 == IF s1 = 0 THEN 0 ELSE GenderEnd(t, s1)
        s2 == SpacesEnd(t, g1)
        e  == EventEnd(t, s2)
        a2 == IF e = 0 THEN 0 ELSE AgeEnd(t, e)
        s3 == SpacesEnd(t, a2)
        g2 == IF s3 = 0 THEN 0 ELSE GenderEnd(t, s3)
    IN IF g2 # 0 /\ g2 = Len(t) + 1
       THEN <<Some(SubSeq(t, 1, a1 - 1) \o " " \o SubSeq(t, s1, g1 - 1)),
              Some(SubSeq(t, e, a2 - 1) \o " " \o SubSeq(t, s3, g2 - 1))>>
       ELSE <<None, None>>

(***************************************************************************)
(* is_data_row: the 13-column schema, the field grammars, the ordering.    *)
(***************************************************************************)
\* re ^\d{2,4}\s+(FR|BK|BR|FL|IM|FR-R|MED-R)\s+(SCY|SCM|LCM)$
event_pattern(event) ==
    LET n == DigitRun(event, 1)
        p == n + 1 + SpaceRun(event, n + 1)
    IN /\ n \in 2..4
       /\ SpaceRun(event, n + 1) >= 1
       /\ \E st \in STROKES :
            /\ LitAt(event, p, st)
            /\ SpaceRun(event, p + Len(st)) >= 1
            /\ LET q == p + Len(st) + SpaceRun(event, p + Len(st))
               IN \E c \in COURSES : LitAt(event, q, c) /\ q + Len(c) - 1 \in DollarEnds(event)

\* re ^(?:\d{1,2}:)?\d{2}\.\d{2}(?:\s*\*)?$
data_time_pattern(item) ==
    \E n \in DollarEnds(item) :
        \/ TimeAt(item, n)
        \/ /\ n >= 1
           /\ Ch(item, n) = "*"
           /\ TimeAt(item, n - 1 - SpaceRunBack(item, n - 1))

\* [t for t in parsed if t is not None]
RECURSIVE comparable(_)
comparable(parsed) ==
    IF parsed = <<>> THEN <<>>
    ELSE (IF Head(parsed) = None THEN <<>> ELSE <<Get(Head(parsed))>>) \o comparable(Tail(parsed))

\* Variants: the comparison reversed, and the comparison made non-strict.
LeftOutOfOrderMut(c) == \E k \in 1..(Len(c) - 1) : FloatLess(c[k + 1], c[k])
LeftOutOfOrderStrictMut(c) == \E k \in 1..(Len(c) - 1) : FloatLessEq(c[k], c[k + 1])

\* for i in range(len(c) - 1): if c[i] < c[i+1]
LeftOutOfOrder(c) == \E k \in 1..(Len(c) - 1) : FloatLess(c[k], c[k + 1])

\* for i in range(len(c) - 1): if c[i] > c[i+1]
RightOutOfOrder(c) == \E k \in 1..(Len(c) - 1) : FloatLess(c[k + 1], c[k])

\* Lines 179-191: the verdict on the order of the twelve decoded standards.
OrderVerdict(parsed) ==
    IF LeftOutOfOrder(comparable(SubSeq(parsed, 1, 6)))
    THEN <<FALSE, Some("Left standards not in descending order")>>
    ELSE IF RightOutOfOrder(comparable(SubSeq(parsed, 7, 12)))
    THEN <<FALSE, Some("Right standards not in ascending order")>>
    ELSE <<TRUE, None>>

\* The first time column that is neither blank nor a time, 0 when there is none.
FirstBadTime(time_columns) ==
    IF \A k \in 1..Len(time_columns) : time_columns[k] = "" \/ data_time_pattern(time_columns[k])
    THEN 0
    ELSE CHOOSE k \in 1..Len(time_columns) :
            /\ time_columns[k] # "" /\ ~data_time_pattern(time_columns[k])
            /\ \A j \in 1..(k - 1) : time_columns[j] = "" \/ data_time_pattern(time_columns[j])

\* Lines 165-191, for the time columns of a row whose event is well-formed; bad is the first
\* column that is no time.  The columns decoded here are blank or admitted by the pattern of
\* line 170, so neither part of one is "nan" and the value is the same for either nan_pick.
TimesVerdict(time_columns, bad) ==
    IF bad # 0
    THEN <<FALSE, Some("Invalid time format in standards column: " \o time_columns[bad])>>
    ELSE OrderVerdict([k \in 1..12 |-> parse_time_to_seconds(time_columns[k], 1)] \o <<>>)

\* The result is the pair (valid, reason); a reason r is held as <<r>>.
is_data_row(row) ==
    IF Len(row) # 13 THEN <<FALSE, Some("Incorrect number of columns")>>
    ELSE IF ~event_pattern(row[7])
    THEN <<FALSE, Some("Invalid event format: " \o row[7])>>
    ELSE TimesVerdict(SubSeq(row, 1, 6) \o SubSeq(row, 8, 13),
                      FirstBadTime(SubSeq(row, 1, 6) \o SubSeq(row, 8, 13)))

(***************************************************************************)
(* The records of one validated row.  A standards dict is the sequence of  *)
(* its (label, time) items in insertion order.                             *)
(***************************************************************************)
\* {label: time for label, time in zip(labels, times) if time}
RECURSIVE standards_of(_, _)
standards_of(labels, times) ==
    IF labels = <<>> \/ times = <<>> THEN <<>>
    ELSE (IF Head(times) # "" THEN <<<<Head(labels), Head(times)>>>> ELSE <<>>)
         \o standards_of(Tail(labels), Tail(times))

\* Variant: a record is appended even for an empty dict.
EmitsSideMut(standards) == TRUE

\* "if left_standards:" and "if right_standards:"
EmitsSide(standards) == standards # <<>>

build_records(cleaned, left_ctx, right_ctx) ==
    LET event == cleaned[7]
        left == rsplit1(left_ctx)
        right == rsplit1(right_ctx)
        left_standards == standards_of(CUT_ORDER_LABELS_LEFT, SubSeq(cleaned, 1, 6))
        right_standards == standards_of(CUT_ORDER_LABELS_RIGHT, SubSeq(cleaned, 8, Len(cleaned)))
    IN (IF EmitsSide(left_standards)
        THEN <<[age |-> left[1], gender |-> left[2], event |-> event,
                standards |-> left_standards]>>
        ELSE <<>>)
       \o
       (IF EmitsSide(right_standards)
        THEN <<[age |-> right[1], gender |-> right[2], event |-> event,
                standards |-> right_standards]>>
        ELSE <<>>)

(***************************************************************************)
(* parse_and_structure_data: the scan loop.  One action is one iteration   *)
(* of the while loop, taken through one of its branches.                   *)
(***************************************************************************)
VARIABLES
    text_lines,        \* the argument: the raw lines
    i,                 \* the cursor, 0-based as in the code
    left_context,      \* None or <<"age gender">>
    right_context,
    structured_data,   \* the records, in discovery order
    flagged_rows,      \* the tuples (cleaned, reason, line number)
    pc,                \* "scan" inside the loop, "done" after the return
    hist,              \* history: one entry per iteration of the loop
    memo,              \* the line and row functions, tabulated on the vocabulary
    arg_row,           \* the argument of is_data_row, when it is run alone
    arg_contexts,      \* the context pair its records are built under
    verdict,           \* None, or <<is_data_row(row)>>
    built,             \* None, or <<the records built from row>>
    arg_items,         \* the argument of clean_row, when it is run alone
    once,              \* None, or <<clean_row(items)>>
    twice              \* None, or <<clean_row(clean_row(items))>>

scanVars == <<text_lines, i, left_context, right_context, structured_data, flagged_rows, hist>>
rowVars == <<arg_row, arg_contexts, verdict, built>>
cleanVars == <<arg_items, once, twice>>
vars == <<scanVars, pc, memo, rowVars, cleanVars>>

MaxLines == 3

\* The lines of the vocabulary.  Their tokens are set apart by the whitespace str.split() cuts
\* at: BlankLine is spaces, a tab and a newline, the first gap of DataLine is a form feed, and
\* UnorderedLine ends with a carriage return and a newline.  Every character held in a state
\* variable is below U+0080: TLC keeps a character of a queued state in one signed byte, so
\* a character from U+0080 on would come back from the queue as another character.
TitleLine == "Motivational Standards"
StampLine == "9/01/2023 10:30:00 AM"
PageLine == "Page 1 of 10"
BlankLine == "   \t\n"
HeaderLineA == "10 Girls   Event   10 Boys"
HeaderLineB == "11-12 Boys 10 & under Girls"
CutOrderLine == "B BB A AA AAA AAAA Event AAAA AAA AA A BB B"
DataLine == "1:35.59\f1 :33.29 * 30.99 30.99 28.79 27.59 50 FR SCY 27.59 28.79 29.99 31.19 33.59 35.99 *"
UnorderedLine == "35.59 33.29 30.99 29.89 28.79 27.59 50 FR SCY 27.59 28.79 29.99 31.19 35.99 33.59\r\n"
RelayLine == "2:41.19 * 2:29.69 * 2 :18.19 * 2:12.39 2:06.69 2:00.89 200 MED-R 1:55.59 * 2:01.09 2:06.59 2:12.09 2:23.09 2:34.09"
UnorderedRelayLine == "41.19 29.69 18.19 12.39 06.69 00.89 200 FR-R 55.59 01.09 06.59 12.09 23.09 34.09"
CourseLine == "SCY"
OtherLine == "unrecognizable text"

LineVocab ==
    {BlankLine, TitleLine, StampLine, PageLine, HeaderLineA, HeaderLineB, CutOrderLine,
     DataLine, UnorderedLine, RelayLine, UnorderedRelayLine, CourseLine, OtherLine}

RowIdle == arg_row = <<>> /\ arg_contexts = <<>> /\ verdict = None /\ built = None
CleanIdle == arg_items = <<>> /\ once = None /\ twice = None
ScanIdle ==
    /\ text_lines = <<>> /\ i = 0 /\ left_context = None /\ right_context = None
    /\ structured_data = <<>> /\ flagged_rows = <<>> /\ hist = <<>>

\* Step 1: the junk filters on the raw line.
IsJunk(line) ==
    \/ is_whitespace_row(line)
    \/ is_general_title_row(line)
    \/ is_timestamp_row(line)
    \/ is_page_number_row(line)

\* Step 3: split and clean.
clean_line(line) == clean_row(split(line))

is_split_relay_part1(cleaned) ==
    /\ Len(cleaned) = 14
    /\ isdigit(cleaned[7])
    /\ cleaned[8] \in RELAYS

merged_row(cleaned, course) ==
    SubSeq(cleaned, 1, 6) \o <<cleaned[7] \o " " \o cleaned[8] \o " " \o course>>
        \o SubSeq(cleaned, 9, Len(cleaned))

\* What steps 1 to 3 compute from one raw line, for every line of the vocabulary.
LineFacts ==
    {[line |-> line,
      junk |-> IsJunk(line),
      header |-> parse_age_gender_header(line),
      cleaned |-> clean_line(line)] : line \in LineVocab}

\* Every row the vocabulary can put before steps 4 and 5, and what they compute
\* from it.
RowVocab ==
    {f.cleaned : f \in LineFacts}
    \cup {merged_row(f.cleaned, course) :
            f \in {g \in LineFacts : is_split_relay_part1(g.cleaned)}, course \in COURSES}

RowFacts ==
    {[row |-> r, cut_order |-> is_cut_order_header_row(r), data |-> is_data_row(r)] :
        r \in RowVocab}

\* The functions of a line and of a row are pure: the loop reads their results
\* from memo, which holds them for the vocabulary and never changes.
Init ==
    /\ memo = [lines |-> LineFacts, rows |-> RowFacts]
    /\ text_lines \in UNION {[1..n -> LineVocab] : n \in 0..MaxLines}
    /\ i = 0
    /\ left_context = None /\ right_context = None
    /\ structured_data = <<>> /\ flagged_rows = <<>>
    /\ pc = "scan"
    /\ hist = <<>>
    /\ RowIdle /\ CleanIdle

facts_of(line) == CHOOSE f \in memo.lines : f.line = line
cleaned_of(line) == facts_of(line).cleaned
row_facts(r) == CHOOSE f \in memo.rows : f.row = r

\* The current line.
cur_line == text_lines[i + 1]

\* Variant: any next line of one token is taken as the course.
LookaheadIsCourseMut(lines, k) ==
    /\ k + 1 < Len(lines)
    /\ Len(cleaned_of(lines[k + 2])) = 1

\* The lookahead of the split-relay logic: the next line is one course code.
LookaheadIsCourse(lines, k) ==
    /\ k + 1 < Len(lines)
    /\ LET cleaned_next_row == cleaned_of(lines[k + 2])
       IN Len(cleaned_next_row) = 1 /\ cleaned_next_row[1] \in COURSES

Fuses(lines, k) == is_split_relay_part1(cleaned_of(lines[k + 1])) /\ LookaheadIsCourse(lines, k)

\* cleaned, after the split-relay logic, for the line at cursor k.
row_at(lines, k) ==
    IF Fuses(lines, k)
    THEN merged_row(cleaned_of(lines[k + 1]), cleaned_of(lines[k + 2])[1])
    ELSE cleaned_of(lines[k + 1])

\* Variant: the consumed course line is not skipped.
SkipConsumedMut(lines, k) == k

\* Variant: the line after a relay row is skipped whatever it is, or is not.
SkipConsumedRelayMut(lines, k) ==
    IF is_split_relay_part1(cleaned_of(lines[k + 1])) THEN k + 1 ELSE k

\* The cursor after the split-relay logic: "i += 1" when the lookahead was consumed.
SkipConsumed(lines, k) == IF Fuses(lines, k) THEN k + 1 ELSE k

\* The line number a flagged row is recorded with: "i + 1", read after that "i += 1".
flag_line(lines, k) == SkipConsumed(lines, k) + 1

Scanning == pc = "scan" /\ i < Len(text_lines)

\* The line reaches tokenisation: no junk filter and no context header took it,
\* and the cleaned row is not empty.
ReachesRow ==
    /\ Scanning
    /\ ~facts_of(cur_line).junk
    /\ facts_of(cur_line).header[1] = None
    /\ cleaned_of(cur_line) # <<>>

\* A history entry: the 1-based number of the current line, the 1-based number of
\* the line the cursor moves to, the contexts the iteration started under, the
\* branch taken, the row, and how many records and flagged rows it appended.
Entry(kind, r, nrec, nflag) ==
    [line |-> i + 1,
     ctx |-> <<left_context, right_context>>,
     next |-> IF r = <<>> THEN i + 2 ELSE SkipConsumed(text_lines, i) + 2,
     kind |-> kind, row |-> r, recs |-> nrec, flags |-> nflag]

\* Lines 210-221 and 235-237: a junk line, or a line with no token, is skipped.
SkipJunk ==
    /\ Scanning
    /\ \/ facts_of(cur_line).junk
       \/ /\ facts_of(cur_line).header[1] = None
          /\ cleaned_of(cur_line) = <<>>
    /\ i' = i + 1
    /\ hist' = Append(hist, Entry("junk", <<>>, 0, 0))
    /\ UNCHANGED <<text_lines, left_context, right_context, structured_data, flagged_rows, pc, memo>>
    /\ UNCHANGED <<rowVars, cleanVars>>

\* Variant: a header only fills contexts that are still unset.
UpdateContextKeepMut ==
    /\ Scanning
    /\ ~facts_of(cur_line).junk
    /\ LET new == facts_of(cur_line).header
       IN /\ new[1] # None
          /\ left_context' = IF left_context = None THEN new[1] ELSE left_context
          /\ right_context' = IF right_context = None THEN new[2] ELSE right_context
    /\ i' = i + 1
    /\ hist' = Append(hist, Entry("context", <<>>, 0, 0))
    /\ UNCHANGED <<text_lines, structured_data, flagged_rows, pc, memo>>
    /\ UNCHANGED <<rowVars, cleanVars>>

\* Variant: a header overwrites the left context only.
UpdateContextLeftMut ==
    /\ Scanning
    /\ ~facts_of(cur_line).junk
    /\ LET new == facts_of(cur_line).header
       IN /\ new[1] # None
          /\ left_context' = new[1]
    /\ i' = i + 1
    /\ hist' = Append(hist, Entry("context", <<>>, 0, 0))
    /\ UNCHANGED <<text_lines, right_context, structured_data, flagged_rows, pc, memo>>
    /\ UNCHANGED <<rowVars, cleanVars>>

\* Lines 224-229: a context header overwrites both contexts.
UpdateContext ==
    /\ Scanning
    /\ ~facts_of(cur_line).junk
    /\ LET new == facts_of(cur_line).header
       IN /\ new[1] # None
          /\ left_context' = new[1]
          /\ right_context' = new[2]
    /\ i' = i + 1
    /\ hist' = Append(hist, Entry("context", <<>>, 0, 0))
    /\ UNCHANGED <<text_lines, structured_data, flagged_rows, pc, memo>>
    /\ UNCHANGED <<rowVars, cleanVars>>

\* Lines 264-266: the cut-order header row is dropped.
SkipCutOrder ==
    /\ ReachesRow
    /\ row_facts(row_at(text_lines, i)).cut_order
    /\ i' = SkipConsumed(text_lines, i) + 1
    /\ hist' = Append(hist, Entry("cut_order", row_at(text_lines, i), 0, 0))
    /\ UNCHANGED <<text_lines, left_context, right_context, structured_data, flagged_rows, pc, memo>>
    /\ UNCHANGED <<rowVars, cleanVars>>

\* Variant: the row is dropped without being flagged.
FlagNoContextMut ==
    /\ ReachesRow
    /\ LET cleaned == row_at(text_lines, i)
       IN /\ ~row_facts(cleaned).cut_order
          /\ row_facts(cleaned).data[1]
          /\ left_context = None \/ right_context = None
          /\ hist' = Append(hist, Entry("no_context", cleaned, 0, 0))
    /\ i' = SkipConsumed(text_lines, i) + 1
    /\ UNCHANGED <<text_lines, left_context, right_context, structured_data, flagged_rows, pc, memo>>
    /\ UNCHANGED <<rowVars, cleanVars>>

\* Lines 269-275: a valid data row with a context missing is flagged.
FlagNoContext ==
    /\ ReachesRow
    /\ LET cleaned == row_at(text_lines, i)
       IN /\ ~row_facts(cleaned).cut_order
          /\ row_facts(cleaned).data[1]
          /\ left_context = None \/ right_context = None
          /\ flagged_rows' = Append(flagged_rows,
                <<cleaned, "Data row found without age/gender context", flag_line(text_lines, i)>>)
          /\ hist' = Append(hist, Entry("no_context", cleaned, 0, 1))
    /\ i' = SkipConsumed(text_lines, i) + 1
    /\ UNCHANGED <<text_lines, left_context, right_context, structured_data, pc, memo>>
    /\ UNCHANGED <<rowVars, cleanVars>>

\* Lines 277-299 and 304: a valid data row under both contexts becomes records.
EmitRecords ==
    /\ ReachesRow
    /\ LET cleaned == row_at(text_lines, i)
       IN /\ ~row_facts(cleaned).cut_order
          /\ row_facts(cleaned).data[1]
          /\ left_context # None /\ right_context # None
          /\ LET new == build_records(cleaned, Get(left_context), Get(right_context))
             IN /\ structured_data' = structured_data \o new
                /\ hist' = Append(hist, Entry("records", cleaned, Len(new), 0))
    /\ i' = SkipConsumed(text_lines, i) + 1
    /\ UNCHANGED <<text_lines, left_context, right_context, flagged_rows, pc, memo>>
    /\ UNCHANGED <<rowVars, cleanVars>>

\* Variant: the row is dropped without being flagged.
FlagInvalidMut ==
    /\ ReachesRow
    /\ LET cleaned == row_at(text_lines, i)
           result == row_facts(cleaned).data
       IN /\ ~row_facts(cleaned).cut_order
          /\ ~result[1]
          /\ hist' = Append(hist, Entry("invalid", cleaned, 0, 0))
    /\ i' = SkipConsumed(text_lines, i) + 1
    /\ UNCHANGED <<text_lines, left_context, right_context, structured_data, flagged_rows, pc, memo>>
    /\ UNCHANGED <<rowVars, cleanVars>>

\* Lines 300-304: any other row is flagged with is_data_row's reason.
FlagInvalid ==
    /\ ReachesRow
    /\ LET cleaned == row_at(text_lines, i)
           result == row_facts(cleaned).data
       IN /\ ~row_facts(cleaned).cut_order
          /\ ~result[1]
          /\ flagged_rows' = Append(flagged_rows,
                <<cleaned, Get(result[2]), flag_line(text_lines, i)>>)
          /\ hist' = Append(hist, Entry("invalid", cleaned, 0, 1))
    /\ i' = SkipConsumed(text_lines, i) + 1
    /\ UNCHANGED <<text_lines, left_context, right_context, structured_data, pc, memo>>
    /\ UNCHANGED <<rowVars, cleanVars>>

\* Lines 206 and 306-311: the loop ends and the records are returned.
Return ==
    /\ pc = "scan"
    /\ ~(i < Len(text_lines))
    /\ pc' = "done"
    /\ UNCHANGED <<scanVars, memo, rowVars, cleanVars>>

Next ==
    \/ SkipJunk
    \/ UpdateContext
    \/ SkipCutOrder
    \/ FlagNoContext
    \/ EmitRecords
    \/ FlagInvalid
    \/ Return

Spec == Init /\ [][Next]_vars

\* The loop is sequential code: an iteration that can run does run.
SpecFair == Spec /\ WF_vars(Next)

(***************************************************************************)
(* The same loop on lines around the split-relay logic: a relay row whose  *)
(* lookahead is missing or is no course code, and lines with a standard    *)
(* missing: ShortLine has 12 tokens after merging, ShortRelayLine and      *)
(* StrayLine (a token after the last standard) have 13.                    *)
(***************************************************************************)
WordLine == "Relays"
ShortLine == "1:35.59 1 :33.29 * 30.99  28.79 27.59 50 FR SCY 27.59 28.79 29.99 31.19 33.59 35.99 *"
StrayLine == "33.29 30.99 29.89 28.79 27.59 50 FR SCY 27.59 28.79 29.99 31.19 33.59 35.99 extra"
ShortRelayLine == "2:41.19 * 2:29.69 * 2 :18.19 * 2:12.39 2:06.69 200 MED-R 1:55.59 * 2:01.09 2:06.59 2:12.09 2:23.09 2:34.09"

EdgeVocab ==
    {TitleLine, HeaderLineA, CutOrderLine, DataLine, ShortLine, StrayLine, RelayLine,
     ShortRelayLine, CourseLine, WordLine}

EdgeLineFacts ==
    {[line |-> line,
      junk |-> IsJunk(line),
      header |-> parse_age_gender_header(line),
      cleaned |-> clean_line(line)] : line \in EdgeVocab}

\* The rows of the vocabulary, and every relay row merged with a course code or
\* with the token of a one-token line.
EdgeRowVocab ==
    {f.cleaned : f \in EdgeLineFacts}
    \cup {merged_row(f.cleaned, word) :
            f \in {g \in EdgeLineFacts : is_split_relay_part1(g.cleaned)},
            word \in COURSES \cup {g.cleaned[1] : g \in {e \in EdgeLineFacts : Len(e.cleaned) = 1}}}

EdgeRowFacts ==
    {[row |-> r, cut_order |-> is_cut_order_header_row(r), data |-> is_data_row(r)] :
        r \in EdgeRowVocab}

InitEdge ==
    /\ memo = [lines |-> EdgeLineFacts, rows |-> EdgeRowFacts]
    /\ text_lines \in UNION {[1..n -> EdgeVocab] : n \in 0..MaxLines}
    /\ i = 0
    /\ left_context = None /\ right_context = None
    /\ structured_data = <<>> /\ flagged_rows = <<>>
    /\ pc = "scan"
    /\ hist = <<>>
    /\ RowIdle /\ CleanIdle

SpecEdge == InitEdge /\ [][Next]_vars

(***************************************************************************)
(* is_data_row and the record building of lines 277-299, run alone on rows *)
(* that hold blank tokens too (the scanner's rows never do).               *)
(***************************************************************************)
TimeTokens == {"", "27.59", "1:05.39 *"}

SixTimes == [1..6 -> TimeTokens]

FixedSides ==
    {<<"", "", "", "", "", "">>,
     <<"27.59", "28.79", "29.99", "31.19", "33.59", "35.99">>,
     <<"35.99", "33.59", "31.19", "29.99", "28.79", "27.59">>}

\* Sides that spell one duration in two ways, with and without minutes: float('1') * 60 +
\* float('08.04') is the float below float('68.04'), and float('1') * 60 + float('08.21') the
\* float above float('68.21').
MixedSides ==
    {<<a, b, "", "", "", "">> : a, b \in {"1:08.04", "68.04"}}
    \cup {<<"", a, "", b, "", "">> : a, b \in {"1:08.21 *", "68.21"}}

RowInputs ==
    {l \o <<"50 FR SCY">> \o r : l \in SixTimes, r \in FixedSides}
    \cup {l \o <<"50 FR SCY">> \o r : l \in FixedSides, r \in SixTimes}
    \cup {l \o <<"100 FR SCY">> \o r : l, r \in MixedSides}
    \cup {<<"35.99", "33.59", "31.19", "29.99", "28.79", "27.59">> \o <<e>>
            \o <<"27.59", "28.79", "29.99", "31.19", "33.59", t>> :
                e \in {"200 MED-R LCM", "50 FREE SCY", "5 FR SCY", "50"},
                t \in {"35.99", "35.99*", "2:16", "x"}}
    \cup {<<"1:00.00", "200 FR SCY", "1:00.00">>,
          <<"35.99", "33.59", "31.19", "29.99", "28.79", "27.59", "50", "FR", "SCY",
            "27.59", "28.79", "29.99", "31.19", "33.59", "35.99">>}

ContextPairs == {<<"10 Girls", "10 Boys">>, <<"10 & under Boys", "11-12 Girls">>}

\* The tokens of the row inputs, and what parse_time_to_seconds gives for each, for either
\* operand a sum of two NaN may keep.
RowTokens == UNION {{r[k] : k \in 1..Len(r)} : r \in RowInputs}

TimeFacts ==
    {[text |-> t, seconds |-> parse_time_to_seconds(t, nan_pick)] :
        t \in RowTokens, nan_pick \in NaNPicks}

InitRow ==
    /\ arg_row \in RowInputs
    /\ arg_contexts \in ContextPairs
    /\ verdict = None /\ built = None
    /\ pc = "row"
    /\ memo = [lines |-> {}, rows |-> {}, times |-> TimeFacts]
    /\ ScanIdle /\ CleanIdle

\* Line 269: is_valid_data, reason = is_data_row(cleaned)
Validate ==
    /\ pc = "row"
    /\ verdict = None
    /\ verdict' = Some(is_data_row(arg_row))
    /\ UNCHANGED <<arg_row, arg_contexts, built, pc, memo, scanVars, cleanVars>>

\* Lines 277-299: the records of a valid row under a complete context pair.
Build ==
    /\ pc = "row"
    /\ verdict # None /\ Get(verdict)[1]
    /\ built = None
    /\ built' = Some(build_records(arg_row, arg_contexts[1], arg_contexts[2]))
    /\ UNCHANGED <<arg_row, arg_contexts, verdict, pc, memo, scanVars, cleanVars>>

NextRow == Validate \/ Build

SpecRow == InitRow /\ [][NextRow]_vars

(***************************************************************************)
(* clean_row run alone, and run again on its own result.                   *)
(***************************************************************************)
MaxItems == 4

CleanVocab == {"2", "50", ":17.99", "17.99", "2:17.99", "*", "FR-R", "SCY", "x"}

InitClean ==
    /\ arg_items \in UNION {[1..n -> CleanVocab] : n \in 0..MaxItems}
    /\ once = None /\ twice = None
    /\ pc = "clean"
    /\ memo = [lines |-> {}, rows |-> {}]
    /\ ScanIdle /\ RowIdle

CleanOnce ==
    /\ pc = "clean"
    /\ once = None
    /\ once' = Some(clean_row(arg_items))
    /\ UNCHANGED <<arg_items, twice, pc, memo, scanVars, rowVars>>

CleanTwice ==
    /\ pc = "clean"
    /\ once # None /\ twice = None
    /\ twice' = Some(clean_row(Get(once)))
    /\ UNCHANGED <<arg_items, once, pc, memo, scanVars, rowVars>>

NextClean == CleanOnce \/ CleanTwice

SpecClean == InitClean /\ [][NextClean]_vars

(***************************************************************************)
(* Properties of the scan loop.  They read the history: entry n of hist is *)
(* the n-th iteration of the while loop.                                   *)
(***************************************************************************)
RECURSIVE RecsBefore(_, _)
RecsBefore(h, n) == IF n = 0 THEN 0 ELSE h[n].recs + RecsBefore(h, n - 1)

RECURSIVE FlagsBefore(_, _)
FlagsBefore(h, n) == IF n = 0 THEN 0 ELSE h[n].flags + FlagsBefore(h, n - 1)

\* The records and the flagged rows appended by iteration n.
RecordsOf(n) ==
    SubSeq(structured_data, RecsBefore(hist, n - 1) + 1, RecsBefore(hist, n))
FlaggedOf(n) ==
    SubSeq(flagged_rows, FlagsBefore(hist, n - 1) + 1, FlagsBefore(hist, n))

\* What every iteration appended is what the two output lists hold.
OutputsMatchHistory ==
    /\ Len(structured_data) = RecsBefore(hist, Len(hist))
    /\ Len(flagged_rows) = FlagsBefore(hist, Len(hist))

\* Iteration n processed a row that is_data_row accepts.
PassesIsDataRow(n) == hist[n].row # <<>> /\ row_facts(hist[n].row).data[1]

ContextUnset(n) == hist[n].ctx[1] = None \/ hist[n].ctx[2] = None

IsHeaderLine(ln) == facts_of(text_lines[ln]).header[1] # None

\* C1: a row that passes is_data_row becomes records only if both contexts are
\* set when it is processed; with a context unset it is appended to the flagged
\* list with the reason "Data row found without age/gender context", gives no
\* record, and is never processed again: the cursor only moves forward, so no
\* later header line can turn it into a record.
C1_MissingContextFlagsRow ==
    /\ OutputsMatchHistory
    /\ \A n \in 1..Len(hist) :
        /\ hist[n].line < hist[n].next
        /\ \A m \in 1..(n - 1) : hist[m].next <= hist[n].line
        /\ PassesIsDataRow(n) =>
            /\ hist[n].recs > 0 => ~ContextUnset(n)
            /\ ContextUnset(n) =>
                /\ hist[n].recs = 0
                /\ RecordsOf(n) = <<>>
                /\ Len(FlaggedOf(n)) = 1
                /\ FlaggedOf(n)[1][1] = hist[n].row
                /\ FlaggedOf(n)[1][2] = "Data row found without age/gender context"

\* C1 witness: the scan has ended; a valid row met no context and was flagged,
\* a header line followed it, and the same row given again became records.
C1_Witness ==
    /\ pc = "done"
    /\ \E n, m, k \in 1..Len(hist) :
        /\ n < m /\ m < k
        /\ PassesIsDataRow(n) /\ ContextUnset(n) /\ hist[n].flags = 1
        /\ IsHeaderLine(hist[m].line)
        /\ hist[k].row = hist[n].row /\ hist[k].recs > 0
        /\ Len(flagged_rows) = 1

\* The most recent header line before line ln (0 when there is none).
LastHeaderBefore(ln) ==
    LET hs == {m \in 1..(ln - 1) : IsHeaderLine(m)}
    IN IF hs = {} THEN 0 ELSE CHOOSE m \in hs : \A j \in hs : j <= m

\* C2: every record emitted for a data row carries the age and gender of the
\* most recent header line before that row: the record of tokens 0-5 those of its
\* left context, the record of tokens 7-12 those of its right context.
C2_RecordsCarryLatestHeader ==
    \A n \in 1..Len(hist) :
        hist[n].recs > 0 =>
            LET m == LastHeaderBefore(hist[n].line)
                recs == RecordsOf(n)
                r == hist[n].row
            IN /\ m > 0
               /\ Len(recs) = 2
               /\ LET hd == facts_of(text_lines[m]).header
                  IN /\ recs[1].age \o " " \o recs[1].gender = Get(hd[1])
                     /\ recs[2].age \o " " \o recs[2].gender = Get(hd[2])
               /\ \A g \in 1..2 : recs[g].gender \in {"Girls", "Boys"}
               /\ \A g \in 1..2 : recs[g].event = r[7]
               /\ [k \in 1..6 |-> recs[1].standards[k][2]] = SubSeq(r, 1, 6)
               /\ [k \in 1..6 |-> recs[2].standards[k][2]] = SubSeq(r, 8, 13)

\* C2 witness: records were emitted under the second of two header lines that set
\* different contexts.
C2_Witness ==
    /\ pc = "done"
    /\ \E n \in 1..Len(hist) :
        /\ hist[n].recs > 0
        /\ LET m == LastHeaderBefore(hist[n].line)
           IN /\ m > 1
              /\ \E j \in 1..(m - 1) :
                    /\ IsHeaderLine(j)
                    /\ facts_of(text_lines[j]).header # facts_of(text_lines[m]).header

\* Iteration n began on a line that reached tokenisation (no junk filter and no
\* header match took it) whose merged form is the first part of a split relay
\* row, and the next line's merged form is one course code.
SplitRelayCase(n) ==
    LET ln == hist[n].line
        c == cleaned_of(text_lines[ln])
    IN /\ hist[n].row # <<>>
       /\ Len(c) = 14
       /\ isdigit(c[7])
       /\ c[8] \in {"FR-R", "MED-R"}
       /\ ln < Len(text_lines)
       /\ LET nx == cleaned_of(text_lines[ln + 1])
          IN Len(nx) = 1 /\ nx[1] \in {"SCY", "SCM", "LCM"}

\* C4: when the merged form of the line the loop tokenises has exactly 14 tokens
\* with token 6 all digits and token 7 a relay code, and the next line exists
\* and merges to one course code, the row processed is tokens 0..5 +
\* [token6 + " " + token7 + " " + course] + tokens 8..13, the cursor advances by
\* two lines, and the next line is never processed as a row of its own; with both
\* contexts set and the fused row valid it yields 2 records whose event string
\* holds the course code of the next line.
C4_SplitRelayFused ==
    /\ Len(hist) > 0 => i + 1 = hist[Len(hist)].next
    /\ \A n \in 1..Len(hist) :
        SplitRelayCase(n) =>
            LET ln == hist[n].line
                c == cleaned_of(text_lines[ln])
                course == cleaned_of(text_lines[ln + 1])[1]
                event == c[7] \o " " \o c[8] \o " " \o course
            IN /\ hist[n].row = SubSeq(c, 1, 6) \o <<event>> \o SubSeq(c, 9, 14)
               /\ Len(hist[n].row) = 13
               /\ hist[n].next = ln + 2
               /\ \A m \in 1..Len(hist) : hist[m].line # ln + 1
               /\ (~ContextUnset(n) /\ PassesIsDataRow(n)) =>
                    /\ Len(RecordsOf(n)) = 2
                    /\ hist[n].flags = 0
                    /\ \A g \in 1..2 :
                        /\ RecordsOf(n)[g].event = event
                        /\ contains(RecordsOf(n)[g].event, course)

\* C4 witness: the scan has ended, and a split relay row was fused under both
\* contexts and gave two records.
C4_Witness ==
    /\ pc = "done"
    /\ \E n \in 1..Len(hist) :
        /\ SplitRelayCase(n) /\ ~ContextUnset(n) /\ PassesIsDataRow(n)
        /\ Len(RecordsOf(n)) = 2
        /\ i = hist[n].line + 1

\* Iteration n began on a line that reached tokenisation whose merged form is
\* the first part of a split relay row, and there is no next line or its merged
\* form is not exactly one course code.
UnmatchedRelayCase(n) ==
    LET ln == hist[n].line
        c == cleaned_of(text_lines[ln])
    IN /\ hist[n].row # <<>>
       /\ Len(c) = 14
       /\ isdigit(c[7])
       /\ c[8] \in {"FR-R", "MED-R"}
       /\ \/ ln = Len(text_lines)
          \/ LET nx == cleaned_of(text_lines[ln + 1])
             IN ~(Len(nx) = 1 /\ nx[1] \in {"SCY", "SCM", "LCM"})

\* C11: when the merged form of the line the loop tokenises has exactly 14
\* tokens with token 6 all digits and token 7 a relay code, but there is no next
\* line or the next line does not merge to exactly one course code, the 14-token
\* row is left unchanged, is flagged with "Incorrect number of columns", gives
\* no record, the cursor advances by one line only, and the next line, if
\* present, is the current line of the following iteration.
C11_UnmatchedRelayFlagged ==
    \A n \in 1..Len(hist) :
        UnmatchedRelayCase(n) =>
            LET ln == hist[n].line
            IN /\ hist[n].row = cleaned_of(text_lines[ln])
               /\ Len(hist[n].row) = 14
               /\ Len(FlaggedOf(n)) = 1
               /\ FlaggedOf(n)[1][1] = hist[n].row
               /\ FlaggedOf(n)[1][2] = "Incorrect number of columns"
               /\ RecordsOf(n) = <<>>
               /\ hist[n].next = ln + 1
               /\ n = Len(hist) => i = ln
               /\ n < Len(hist) => hist[n + 1].line = ln + 1
               /\ (pc = "done" /\ ln < Len(text_lines)) => n < Len(hist)

\* C11 witness: the scan has ended; under both contexts a relay row was followed
\* by a line of one token that is no course code, the row was flagged and the
\* next line was then flagged as a row of its own.
C11_Witness ==
    /\ pc = "done"
    /\ \E n \in 1..(Len(hist) - 1) :
        /\ UnmatchedRelayCase(n) /\ ~ContextUnset(n)
        /\ Len(cleaned_of(text_lines[hist[n].line + 1])) = 1
        /\ hist[n].flags = 1
        /\ hist[n + 1].line = hist[n].line + 1 /\ hist[n + 1].flags = 1

\* The current line is tokenised, its merged form is the first part of a split
\* relay row, and the next line exists and merges to one course code: the
\* iteration about to run consumes the lookahead.
FusionApplies ==
    /\ ReachesRow
    /\ LET c == cleaned_of(cur_line)
       IN Len(c) = 14 /\ isdigit(c[7]) /\ c[8] \in {"FR-R", "MED-R"}
    /\ i + 1 < Len(text_lines)
    /\ LET nx == cleaned_of(text_lines[i + 2])
       IN Len(nx) = 1 /\ nx[1] \in {"SCY", "SCM", "LCM"}

\* An iteration moves the cursor forward by one line, or by two exactly when it
\* consumes the lookahead; nothing else moves the cursor.
CursorStep ==
    /\ Scanning => (i' = IF FusionApplies THEN i + 2 ELSE i + 1)
    /\ ~Scanning => i' = i

CursorInRange == 0 <= i /\ i <= Len(text_lines)

NoLineTwice ==
    \A n, m \in 1..Len(hist) : hist[n].line = hist[m].line => n = m

\* C12: the scan loop terminates on every finite sequence of lines: each
\* iteration advances the cursor by exactly one line, or by exactly two when and
\* only when split-row fusion consumed the lookahead line; the cursor never moves
\* backwards, never exceeds the number of lines, and no line is the current line
\* of more than one iteration.
C12_ScanTerminates ==
    /\ [][CursorStep]_vars
    /\ [](CursorInRange /\ NoLineTwice)
    /\ <>(pc = "done")

\* C12 witness: the scan has ended with the cursor on the number of lines, after
\* an iteration that advanced by two lines and one that advanced by one.
C12_Witness ==
    /\ pc = "done"
    /\ i = Len(text_lines)
    /\ \E n, m \in 1..Len(hist) :
        /\ hist[n].next = hist[n].line + 2
        /\ hist[m].next = hist[m].line + 1 /\ hist[m].row # <<>>

\* The number of time tokens of a row, and whether it holds an event, complete
\* or as the two tokens of a split relay row.
TimeCount(r) == Cardinality({k \in 1..Len(r) : data_time_pattern(r[k])})

HoldsEvent(r) ==
    \E k \in 1..Len(r) :
        \/ event_pattern(r[k])
        \/ k < Len(r) /\ isdigit(r[k]) /\ r[k + 1] \in {"FR-R", "MED-R"}

\* Iteration n processed a row of standards with at least one standard missing.
MissingStandard(n) ==
    hist[n].row # <<>> /\ HoldsEvent(hist[n].row) /\ TimeCount(hist[n].row) < 12

\* No token of a processed row is blank; every converted row gives exactly two
\* records, the left one then the right one, with the same event and six
\* standards each; the number of records is even.
ConvertedRowsGiveTwoRecords ==
    /\ \A n \in 1..Len(hist) :
        /\ \A k \in 1..Len(hist[n].row) : hist[n].row[k] # ""
        /\ hist[n].recs > 0 =>
            LET recs == RecordsOf(n)
            IN /\ Len(recs) = 2
               /\ recs[1].event = recs[2].event
               /\ recs[1].age \o " " \o recs[1].gender = Get(hist[n].ctx[1])
               /\ recs[2].age \o " " \o recs[2].gender = Get(hist[n].ctx[2])
               /\ Len(recs[1].standards) = 6 /\ Len(recs[2].standards) = 6
               /\ [k \in 1..6 |-> recs[1].standards[k][1]]
                    = <<"B", "BB", "A", "AA", "AAA", "AAAA">>
               /\ [k \in 1..6 |-> recs[2].standards[k][1]]
                    = <<"AAAA", "AAA", "AA", "A", "BB", "B">>
    /\ Len(structured_data) % 2 = 0

\* C13, amended: no token of a merged row is ever blank; every data row the
\* scanner converts yields exactly two records, the left record immediately
\* followed by the right record with the same event, each with exactly six
\* standards, so the number of records is always even; and a line with any
\* standard missing is never partially recorded: it yields no record and is
\* flagged.
C13_NoPartialRecord ==
    /\ ConvertedRowsGiveTwoRecords
    /\ \A n \in 1..Len(hist) :
        MissingStandard(n) =>
            hist[n].recs = 0 /\ RecordsOf(n) = <<>> /\ Len(FlaggedOf(n)) = 1

\* C13 as stated: the same, with the line that lacks a standard having fewer
\* than 13 tokens.
C13_AsStated ==
    /\ ConvertedRowsGiveTwoRecords
    /\ \A n \in 1..Len(hist) :
        MissingStandard(n) =>
            /\ Len(hist[n].row) < 13
            /\ hist[n].recs = 0 /\ RecordsOf(n) = <<>> /\ Len(FlaggedOf(n)) = 1

\* C13 witness: the scan has ended; under both contexts a line with a standard
\* missing, whose merged form has 13 tokens, was flagged and a complete row gave
\* its two records.
C13_Witness ==
    /\ pc = "done"
    /\ \E n, m \in 1..Len(hist) :
        /\ MissingStandard(n) /\ ~ContextUnset(n) /\ hist[n].flags = 1
        /\ Len(hist[n].row) = 13
        /\ hist[m].recs = 2
    /\ Len(structured_data) = 2

\* Line ln was consumed as the lookahead of a split relay row.
ConsumedAsLookahead(ln) ==
    \E n \in 1..Len(hist) : hist[n].line + 1 = ln /\ hist[n].next = ln + 1

\* The line of iteration n is one the loop drops silently: blank, title,
\* timestamp or page footer (the four filters of IsJunk), context header, or a
\* row equal to a cut-order header.
SilentLine(n) ==
    LET line == text_lines[hist[n].line]
    IN \/ facts_of(line).junk
       \/ IsHeaderLine(hist[n].line)
       \/ row_facts(row_at(text_lines, hist[n].line - 1)).cut_order

\* C7: every input line is accounted for exactly once: each line passed by the
\* cursor is the line of exactly one iteration or the lookahead consumed by one,
\* never both; a silent line gives neither a record nor a flagged row; every
\* other line either becomes records or adds exactly one flagged entry, never
\* both.
C7_EveryLineAccountedOnce ==
    /\ OutputsMatchHistory
    /\ \A ln \in 1..i :
        /\ Cardinality({n \in 1..Len(hist) : hist[n].line = ln}) <= 1
        /\ (\E n \in 1..Len(hist) : hist[n].line = ln) # ConsumedAsLookahead(ln)
    /\ \A n \in 1..Len(hist) :
        IF SilentLine(n)
        THEN hist[n].recs = 0 /\ hist[n].flags = 0
        ELSE \/ hist[n].recs > 0 /\ hist[n].flags = 0
             \/ hist[n].recs = 0 /\ hist[n].flags = 1

\* C7 witness: the scan has ended on an input with a silent line, a flagged row
\* and a line consumed as lookahead.
C7_Witness ==
    /\ pc = "done"
    /\ i = Len(text_lines)
    /\ \E n \in 1..Len(hist) : SilentLine(n)
    /\ \E n \in 1..Len(hist) : ~SilentLine(n) /\ hist[n].flags = 1
    /\ \E ln \in 1..i : ConsumedAsLookahead(ln)

\* The two contexts are both unset or both set.
BothOrNeither == (left_context = None) = (right_context = None)

\* A step that changes a context is on a line parse_age_gender_header matches and
\* sets both contexts from that match.
ContextFrame ==
    (left_context' # left_context \/ right_context' # right_context) =>
        /\ Scanning
        /\ ~facts_of(cur_line).junk
        /\ LET new == facts_of(cur_line).header
           IN new[1] # None /\ left_context' = new[1] /\ right_context' = new[2]

\* A step on any other line leaves both contexts as they were.
OtherStepsKeepContext ==
    (Scanning /\ (facts_of(cur_line).junk \/ facts_of(cur_line).header[1] = None)) =>
        (left_context' = left_context /\ right_context' = right_context)

\* C8: the context pair changes only in a step on a line matched by
\* parse_age_gender_header, which overwrites both sides together; every other
\* step leaves both unchanged, so the two sides are always both unset or both
\* set; and the scan goes on after any row: while lines remain a step is
\* possible, and the loop ends only with the cursor past the last line.
C8_ContextChangedOnlyByHeader ==
    /\ [][ContextFrame /\ OtherStepsKeepContext]_vars
    /\ [](BothOrNeither)
    /\ [](Scanning => ENABLED Next)
    /\ [](pc = "done" => i >= Len(text_lines))

\* C8 witness: the scan has ended; after a header a row was flagged as invalid,
\* and a later row became records under the contexts of that header.
C8_Witness ==
    /\ pc = "done"
    /\ \E n, m \in 1..Len(hist) :
        /\ n < m
        /\ ~ContextUnset(n) /\ hist[n].flags = 1
        /\ hist[m].recs > 0 /\ hist[m].ctx = hist[n].ctx
    /\ left_context # None /\ right_context # None

\* C9 as stated: every flagged entry records the 1-based number of the line on
\* which its row starts, split relay rows included.
C9_FlaggedLineIsRowStart ==
    \A n \in 1..Len(hist) :
        hist[n].flags = 1 => FlaggedOf(n)[1][3] = hist[n].line

(***************************************************************************)
(* Properties of is_data_row and of the record building, over RowInputs.   *)
(***************************************************************************)
Accepted == verdict # None /\ Get(verdict)[1]

\* The decoded value of token k (0-based k - 1) of the row, None when blank: what
\* parse_time_to_seconds gives for it, read from the table of memo.
Decoded(k) == (CHOOSE f \in memo.times : f.text = arg_row[k]).seconds

LeftNonIncreasing ==
    \A a, b \in 1..6 :
        (a < b /\ Decoded(a) # None /\ Decoded(b) # None) => FloatLessEq(Get(Decoded(b)), Get(Decoded(a)))

RightNonDecreasing ==
    \A a, b \in 8..13 :
        (a < b /\ Decoded(a) # None /\ Decoded(b) # None) => FloatLessEq(Get(Decoded(a)), Get(Decoded(b)))

\* 13 tokens, a well-formed event, and every time token blank or well-formed.
WellFormedRow ==
    /\ Len(arg_row) = 13
    /\ event_pattern(arg_row[7])
    /\ \A k \in (1..6) \cup (8..13) : arg_row[k] = "" \/ data_time_pattern(arg_row[k])

\* C3: a row is_data_row accepts has exactly 13 tokens, token 6 matches the event
\* grammar, the decoded non-blank values of tokens 0-5 are non-increasing and
\* those of tokens 7-12 non-decreasing; a well-formed row whose sides are
\* monotone is accepted even with equal adjacent values, and a row in which a
\* later left value exceeds an earlier one is rejected.
C3_AcceptedRowsMonotone ==
    verdict # None =>
        /\ Accepted =>
            /\ Len(arg_row) = 13
            /\ event_pattern(arg_row[7])
            /\ LeftNonIncreasing
            /\ RightNonDecreasing
        /\ (WellFormedRow /\ LeftNonIncreasing /\ RightNonDecreasing) => Accepted
        /\ (Len(arg_row) = 13 /\ ~LeftNonIncreasing) => ~Accepted

\* C3 witness: an accepted row with two equal adjacent non-blank left values.
C3_Witness ==
    /\ Accepted
    /\ \E k \in 1..5 : arg_row[k] # "" /\ arg_row[k] = arg_row[k + 1]
    /\ \E a, b \in 1..6 : Decoded(a) # None /\ Decoded(b) # None /\ Decoded(a) # Decoded(b)

\* The tokens of one side that are not blank, as the set of their positions.
NonBlank(first) == {k \in 1..6 : arg_row[first + k] # ""}

\* The standards map of a record holds exactly the pairs (label, token) of the
\* non-blank tokens of its side, in the order of the tokens.
HoldsSide(rec, labels, first) ==
    /\ Len(rec.standards) = Cardinality(NonBlank(first))
    /\ \A k \in NonBlank(first) :
        rec.standards[Cardinality({j \in NonBlank(first) : j <= k})]
            = <<labels[k], arg_row[first + k]>>

\* C5: for a validated row converted under a complete context pair, a side whose
\* six tokens are all blank gives no record; any other side gives exactly one
\* record whose standards map holds exactly the (label, token) pairs of its
\* non-blank tokens, labelled B, BB, A, AA, AAA, AAAA on the left and AAAA, AAA,
\* AA, A, BB, B on the right; no record has an empty standards map.
C5_OneRecordPerNonBlankSide ==
    built # None =>
        LET recs == Get(built)
            nl == IF NonBlank(0) = {} THEN 0 ELSE 1
            nr == IF NonBlank(7) = {} THEN 0 ELSE 1
        IN /\ Len(recs) = nl + nr
           /\ \A g \in 1..Len(recs) : recs[g].standards # <<>> /\ recs[g].event = arg_row[7]
           /\ nl = 1 =>
                /\ HoldsSide(recs[1], <<"B", "BB", "A", "AA", "AAA", "AAAA">>, 0)
                /\ recs[1].age \o " " \o recs[1].gender = arg_contexts[1]
           /\ nr = 1 =>
                /\ HoldsSide(recs[nl + 1], <<"AAAA", "AAA", "AA", "A", "BB", "B">>, 7)
                /\ recs[nl + 1].age \o " " \o recs[nl + 1].gender = arg_contexts[2]

\* C5 witness: a validated row with an all-blank left side and a right side that
\* is partly blank was converted, to one record.
C5_Witness ==
    /\ built # None
    /\ NonBlank(0) = {}
    /\ NonBlank(7) # {} /\ NonBlank(7) # 1..6
    /\ Len(Get(built)) = 1

\* Some decoded non-blank left value is followed, among the non-blank left
\* values, by a greater one / by a smaller one.
LeftAdjacent(a, b) ==
    /\ a \in 1..6 /\ b \in 1..6 /\ a < b
    /\ Decoded(a) # None /\ Decoded(b) # None
    /\ \A k \in (a + 1)..(b - 1) : Decoded(k) = None

LeftHasRise == \E a, b \in 1..6 : LeftAdjacent(a, b) /\ FloatLess(Get(Decoded(a)), Get(Decoded(b)))
LeftHasFall == \E a, b \in 1..6 : LeftAdjacent(a, b) /\ FloatLess(Get(Decoded(b)), Get(Decoded(a)))

RejectedLeftOrder ==
    verdict = Some(<<FALSE, Some("Left standards not in descending order")>>)

\* C10, amended: on a 13-token row whose event and time tokens are all
\* well-formed, is_data_row rejects the row with the reason "Left standards not
\* in descending order" if any decoded non-blank left value is greater than its
\* predecessor.
C10_RejectsLeftRise ==
    (verdict # None /\ WellFormedRow /\ LeftHasRise) => RejectedLeftOrder

\* C10 as stated: the row is rejected with that reason if any decoded non-blank
\* left value is less than its predecessor.
C10_AsStated ==
    (verdict # None /\ WellFormedRow /\ LeftHasFall) => RejectedLeftOrder

\* C10 witness: a well-formed row whose left values rise was rejected for the
\* order of its left side, though its right side is in order.
C10_Witness ==
    /\ WellFormedRow /\ LeftHasRise /\ ~LeftHasFall /\ RightNonDecreasing
    /\ RejectedLeftOrder

(***************************************************************************)
(* Properties of clean_row, over the token sequences of InitClean.         *)
(***************************************************************************)
\* C6: clean_row is idempotent: clean_row(clean_row(s)) = clean_row(s) for every
\* sequence s of up to MaxItems tokens of CleanVocab.
C6_CleanRowIdempotent ==
    twice # None => Get(twice) = Get(once)

\* C6 witness: clean_row merged a split time and the "*" after it, and the
\* second pass has run on the result.
C6_Witness ==
    /\ twice # None
    /\ Len(Get(once)) < Len(arg_items)
    /\ \E k \in 1..Len(Get(once)) : Get(once)[k] = "2:17.99 *"
    /\ \E k \in 1..(Len(arg_items) - 2) :
        arg_items[k] = "2" /\ arg_items[k + 1] = ":17.99" /\ arg_items[k + 2] = "*"

====
